---------------------------- MODULE Spec2Model ----------------------------
(***************************************************************************)
(* Model of the rust-transcoder service: the request validator, the error *)
(* to HTTP mapping, the admission gate (a tokio Semaphore used through    *)
(* try_acquire) inside transcode_handler, and the FfmpegProcess           *)
(* supervisor.                                                             *)
(*                                                                         *)
(* f32 values are integers counting 1/10000: 0.5 is 5000, 2.0 is 20000,   *)
(* 30.0 is 300000, -70.0 is -700000, -16.0 is -160000.                     *)
(* Option<T> is a sequence of length at most one: None is <<>>, Some(v)   *)
(* is <<v>>.                                                               *)
(***************************************************************************)
EXTENDS Integers, Sequences, FiniteSets, TLC

VARIABLES
    transcode_semaphore,  \* AppState.transcode_semaphore: available permits
    pc,                   \* per session: position of transcode_handler
    request,              \* per session: Option<TranscodeRequest> (Json body)
    permit,               \* per session: the local `permit` is alive
    response,             \* per session: Option<reply sent to the client>
    steps,                \* per session: the operations the handler has run
    child,                \* per process: the OS process behind tokio Child
    handle,               \* per process: the FfmpegProcess value
    probe                 \* pure-function harness: arguments and results

vars == <<transcode_semaphore, pc, request, permit, response, steps,
          child, handle, probe>>

gate_vars == <<transcode_semaphore, pc, request, permit, response, steps>>
proc_vars == <<child, handle>>

---------------------------------------------------------------------------
(* Bounds *)

\* the configured number of permits N (MAX_CONCURRENT_STREAMS)
MaxConcurrent == 2

\* supervised processes a caller may create
MaxProcs == 1

\* fields of a probed request that differ from the serde defaults
MaxFieldsSet == 2

\* one request more than there are permits, so that the gate can be exhausted
Sessions == 1 .. (MaxConcurrent + 1)

Procs == 1 .. MaxProcs

---------------------------------------------------------------------------
(* Option<T> *)

None == <<>>

Some(v) == <<v>>

IsSome(o) == Len(o) = 1

Unwrap(o) == o[1]

---------------------------------------------------------------------------
(* models/enums.rs *)

AudioFormat == {"opus", "mp3", "aac", "pcm", "wav", "flac"}

AudioCodec == {"libopus", "libmp3lame", "aac", "pcm_s16le", "flac"}

AudioQuality == {"low", "medium", "high", "lossless"}

EqPreset == {"flat", "bass_boost", "voice", "treble"}

content_type(format) ==
    CASE format = "opus" -> "audio/ogg"
      [] format = "mp3"  -> "audio/mpeg"
      [] format = "aac"  -> "audio/aac"
      [] format = "pcm"  -> "audio/pcm"
      [] format = "wav"  -> "audio/wav"
      [] format = "flac" -> "audio/flac"

\* Display for AudioCodec writes ffmpeg_codec(); the variants are named by it
ffmpeg_codec(codec) == codec

\* AudioCodec::is_compatible_with: matches!((self, format), ...)
is_compatible_with(codec, format) ==
    \/ codec = "libopus"    /\ format = "opus"
    \/ codec = "libmp3lame" /\ format = "mp3"
    \/ codec = "aac"        /\ format = "aac"
    \/ codec = "pcm_s16le"  /\ format = "pcm"
    \/ codec = "pcm_s16le"  /\ format = "wav"
    \/ codec = "flac"       /\ format = "flac"

---------------------------------------------------------------------------
(* models/transcode.rs: AudioFilters and TranscodeRequest *)

\* serde defaults: format opus, codec libopus, quality medium,
\* target_loudness -16.0, everything else absent / false
DefaultRequest ==
    [ source_url      |-> "https://x/a.mp3",
      format          |-> "opus",
      output_format   |-> None,
      codec           |-> "libopus",
      quality         |-> "medium",
      bitrate         |-> None,
      sample_rate     |-> None,
      channels        |-> None,
      audio_filters   |-> None,
      normalize       |-> FALSE,
      target_loudness |-> -160000,
      fade_in         |-> None,
      fade_out        |-> None ]

Ok == [ok |-> TRUE, err |-> ""]

Err(msg) == [ok |-> FALSE, err |-> msg]

\* a mutant of AudioFilters_validate: the upper bound of speed is exclusive
AudioFilters_validate_ExclusiveSpeed(f) ==
    IF IsSome(f.speed) /\ (Unwrap(f.speed) < 5000 \/ Unwrap(f.speed) >= 20000)
    THEN Err("speed must be between 0.5 and 2.0")
    ELSE IF IsSome(f.volume) /\ (Unwrap(f.volume) < 0 \/ Unwrap(f.volume) > 20000)
    THEN Err("volume must be between 0.0 and 2.0")
    ELSE Ok

\* a mutant of AudioFilters_validate: speed has no rule
AudioFilters_validate_NoSpeedRule(f) ==
    IF IsSome(f.volume) /\ (Unwrap(f.volume) < 0 \/ Unwrap(f.volume) > 20000)
    THEN Err("volume must be between 0.0 and 2.0")
    ELSE Ok

\* a mutant of AudioFilters_validate: the rule of volume is looked at first
AudioFilters_validate_VolumeFirst(f) ==
    IF IsSome(f.volume) /\ (Unwrap(f.volume) < 0 \/ Unwrap(f.volume) > 20000)
    THEN Err("volume must be between 0.0 and 2.0")
    ELSE IF IsSome(f.speed) /\ (Unwrap(f.speed) < 5000 \/ Unwrap(f.speed) > 20000)
    THEN Err("speed must be between 0.5 and 2.0")
    ELSE Ok

AudioFilters_validate(f) ==
    IF IsSome(f.speed) /\ (Unwrap(f.speed) < 5000 \/ Unwrap(f.speed) > 20000)
    THEN Err("speed must be between 0.5 and 2.0")
    ELSE IF IsSome(f.volume) /\ (Unwrap(f.volume) < 0 \/ Unwrap(f.volume) > 20000)
    THEN Err("volume must be between 0.0 and 2.0")
    ELSE Ok

has_filters(f) == IsSome(f.eq_preset) \/ IsSome(f.speed) \/ IsSome(f.volume)

valid_rates == {8000, 12000, 16000, 24000, 44100, 48000, 96000}

validate(req) ==
    IF req.source_url = ""
    THEN Err("source_url is required")
    ELSE IF IsSome(req.bitrate) /\ (Unwrap(req.bitrate) < 8 \/ Unwrap(req.bitrate) > 512)
    THEN Err("bitrate must be between 8 and 512 kbps")
    ELSE IF IsSome(req.sample_rate) /\ Unwrap(req.sample_rate) \notin valid_rates
    THEN Err("sample_rate must be one of: [8000, 12000, 16000, 24000, 44100, 48000, 96000]")
    ELSE IF IsSome(req.channels) /\ (Unwrap(req.channels) < 1 \/ Unwrap(req.channels) > 2)
    THEN Err("channels must be 1 (mono) or 2 (stereo)")
    ELSE IF IsSome(req.audio_filters) /\ ~AudioFilters_validate(Unwrap(req.audio_filters)).ok
    THEN AudioFilters_validate(Unwrap(req.audio_filters))
    ELSE IF IsSome(req.fade_in) /\ (Unwrap(req.fade_in) < 0 \/ Unwrap(req.fade_in) > 300000)
    THEN Err("fade_in must be between 0 and 30 seconds")
    ELSE IF IsSome(req.fade_out) /\ (Unwrap(req.fade_out) < 0 \/ Unwrap(req.fade_out) > 300000)
    THEN Err("fade_out must be between 0 and 30 seconds")
    ELSE IF req.target_loudness < -700000 \/ req.target_loudness > 0
    THEN Err("target_loudness must be between -70 and 0 LUFS")
    ELSE Ok

---------------------------------------------------------------------------
(* error.rs: AppError and its IntoResponse *)

ErrorKinds ==
    {"Validation", "UnsupportedFormat", "Ffmpeg", "Io", "SourceUnavailable",
     "ConcurrencyLimitExceeded", "Timeout", "FilterInvalid", "Internal"}

\* an AppError value: the String (or io::Error text) it carries in msg, the
\* usize of ConcurrencyLimitExceeded in limit
AppError(kind, msg, limit) == [kind |-> kind, msg |-> msg, limit |-> limit]

Validation(msg) == AppError("Validation", msg, 0)

ConcurrencyLimitExceeded(limit) == AppError("ConcurrencyLimitExceeded", "", limit)

Ffmpeg(msg) == AppError("Ffmpeg", msg, 0)

ErrorResponse(status, code, message) ==
    [status |-> status, code |-> code, message |-> message]

\* a mutant of into_response: the encoder's diagnostic text reaches the client
into_response_EchoFfmpeg(e) ==
    CASE e.kind = "Validation" ->
            ErrorResponse(400, "VALIDATION_ERROR", e.msg)
      [] e.kind = "UnsupportedFormat" ->
            ErrorResponse(400, "UNSUPPORTED_FORMAT", e.msg)
      [] e.kind = "Ffmpeg" ->
            ErrorResponse(500, "FFMPEG_ERROR", e.msg)
      [] e.kind = "Io" ->
            ErrorResponse(500, "IO_ERROR", "IO operation failed")
      [] e.kind = "SourceUnavailable" ->
            ErrorResponse(400, "SOURCE_UNAVAILABLE", e.msg)
      [] e.kind = "ConcurrencyLimitExceeded" ->
            ErrorResponse(503, "CONCURRENCY_LIMIT_EXCEEDED",
                "Server is at capacity. Maximum " \o ToString(e.limit)
                    \o " concurrent streams allowed.")
      [] e.kind = "Timeout" ->
            ErrorResponse(504, "TIMEOUT", e.msg)
      [] e.kind = "FilterInvalid" ->
            ErrorResponse(400, "FILTER_INVALID", e.msg)
      [] e.kind = "Internal" ->
            ErrorResponse(500, "INTERNAL_ERROR", "Internal server error")

\* a mutant of into_response: a validation failure is answered 422
into_response_Validation422(e) ==
    CASE e.kind = "Validation" ->
            ErrorResponse(422, "VALIDATION_ERROR", e.msg)
      [] e.kind = "UnsupportedFormat" ->
            ErrorResponse(400, "UNSUPPORTED_FORMAT", e.msg)
      [] e.kind = "Ffmpeg" ->
            ErrorResponse(500, "FFMPEG_ERROR", "Transcoding failed")
      [] e.kind = "Io" ->
            ErrorResponse(500, "IO_ERROR", "IO operation failed")
      [] e.kind = "SourceUnavailable" ->
            ErrorResponse(400, "SOURCE_UNAVAILABLE", e.msg)
      [] e.kind = "ConcurrencyLimitExceeded" ->
            ErrorResponse(503, "CONCURRENCY_LIMIT_EXCEEDED",
                "Server is at capacity. Maximum " \o ToString(e.limit)
                    \o " concurrent streams allowed.")
      [] e.kind = "Timeout" ->
            ErrorResponse(504, "TIMEOUT", e.msg)
      [] e.kind = "FilterInvalid" ->
            ErrorResponse(400, "FILTER_INVALID", e.msg)
      [] e.kind = "Internal" ->
            ErrorResponse(500, "INTERNAL_ERROR", "Internal server error")

into_response(e) ==
    CASE e.kind = "Validation" ->
            ErrorResponse(400, "VALIDATION_ERROR", e.msg)
      [] e.kind = "UnsupportedFormat" ->
            ErrorResponse(400, "UNSUPPORTED_FORMAT", e.msg)
      [] e.kind = "Ffmpeg" ->
            ErrorResponse(500, "FFMPEG_ERROR", "Transcoding failed")
      [] e.kind = "Io" ->
            ErrorResponse(500, "IO_ERROR", "IO operation failed")
      [] e.kind = "SourceUnavailable" ->
            ErrorResponse(400, "SOURCE_UNAVAILABLE", e.msg)
      [] e.kind = "ConcurrencyLimitExceeded" ->
            ErrorResponse(503, "CONCURRENCY_LIMIT_EXCEEDED",
                "Server is at capacity. Maximum " \o ToString(e.limit)
                    \o " concurrent streams allowed.")
      [] e.kind = "Timeout" ->
            ErrorResponse(504, "TIMEOUT", e.msg)
      [] e.kind = "FilterInvalid" ->
            ErrorResponse(400, "FILTER_INVALID", e.msg)
      [] e.kind = "Internal" ->
            ErrorResponse(500, "INTERNAL_ERROR", "Internal server error")

---------------------------------------------------------------------------
(* transcoder/filters.rs: the filter chain of a request *)

\* {:.4} of a non-negative f32 counted in 1/10000
Fmt4(x) ==
    LET frac == x % 10000
        pad  == IF frac < 10 THEN "000" ELSE IF frac < 100 THEN "00"
                ELSE IF frac < 1000 THEN "0" ELSE ""
    IN  ToString(x \div 10000) \o "." \o pad \o ToString(frac)

RECURSIVE join(_)
\* Vec<String>::join(",")
join(parts) ==
    IF Len(parts) = 0 THEN ""
    ELSE IF Len(parts) = 1 THEN parts[1]
    ELSE parts[1] \o "," \o join(Tail(parts))

\* chain: the non-empty filters, joined by commas
chain(filters) == join(SelectSeq(filters, LAMBDA f : f # ""))

eq_preset_to_filter(preset) ==
    CASE preset = "flat"       -> ""
      [] preset = "bass_boost" -> "equalizer=f=100:width_type=o:width=1.00:g=6.0"
      [] preset = "voice"      ->
            chain(<<"highpass=f=80", "equalizer=f=3000:width_type=o:width=1.00:g=3.0">>)
      [] preset = "treble"     -> "equalizer=f=8000:width_type=o:width=1.50:g=4.0"

\* max and min of f32
Max(a, b) == IF a >= b THEN a ELSE b

Min(a, b) == IF a <= b THEN a ELSE b

\* a mutant of tempo: the second stage of a slow-down is not clamped to 0.5
tempo_NoClamp(factor) ==
    IF factor < 5000
    THEN "atempo=0.5,atempo=" \o Fmt4(factor * 2)
    ELSE IF factor > 20000
    THEN "atempo=2.0,atempo=" \o Fmt4(Min(factor \div 2, 20000))
    ELSE "atempo=" \o Fmt4(factor)

\* tempo (lines 109-121); the factors drawn above 2.0 are even, so that
\* factor / 2.0 has its four decimals
tempo(factor) ==
    IF factor < 5000
    THEN "atempo=0.5,atempo=" \o Fmt4(Max(factor * 2, 5000))
    ELSE IF factor > 20000
    THEN "atempo=2.0,atempo=" \o Fmt4(Min(factor \div 2, 20000))
    ELSE "atempo=" \o Fmt4(factor)

\* {:.1} of 20.0 * factor.log10() for the volume factors the model draws;
\* log10 of 0.0 is -inf, which Rust formats as "-inf"
db_text(factor) ==
    CASE factor = 0     -> "-inf"
      [] factor = 2500  -> "-12.0"
      [] factor = 5000  -> "-6.0"
      [] factor = 9989  -> "-0.0"
      [] factor = 10010 -> "0.0"
      [] factor = 15000 -> "3.5"
      [] factor = 20000 -> "6.0"

VolumeSamples == {0, 2500, 5000, 10000, 15000, 20000}

Abs(x) == IF x < 0 THEN -x ELSE x

\* n / d rounded to the nearest integer, n >= 0
RoundDiv(n, d) == IF 2 * (n % d) >= d THEN n \div d + 1 ELSE n \div d

\* (x - 1.0).abs() of the f32 nearest to x / 10000, counted in 2^-24.  From
\* 0.5 to 1.0 an f32 is a multiple of 2^-24 (2^24 / 10000 = 1677.7216), from
\* 1.0 to 2.0 a multiple of 2^-23 (2^23 / 10000 = 838.8608); the subtraction
\* is exact there.  Outside 0.5 .. 2.0 the difference is 0.5 or more, given
\* as 0.5.
AbsUnity(x) ==
    IF 5000 <= x /\ x < 10000
    THEN 16777216 - (x * 1677 + RoundDiv(x * 7216, 10000))
    ELSE IF 10000 <= x /\ x < 20000
    THEN 2 * ((x * 838 + RoundDiv(x * 8608, 10000)) - 8388608)
    ELSE 8388608

\* the f32 literal 0.001 is 8589935 * 2^-33
F32_0_001 == 8589935

\* d > 0.001 and d < 0.001 of f32, d counted in 2^-24 (2^-24 is 512 * 2^-33)
Gt0_001(d) == d > F32_0_001 \div 512

Lt0_001(d) == d < (F32_0_001 + 511) \div 512

\* a mutant of volume_factor: unity gain is taken up to 0.01 from 1.0
volume_factor_Coarse(factor) ==
    IF AbsUnity(factor) < 167772
    THEN ""
    ELSE "volume=" \o db_text(factor) \o "dB"

volume_factor(factor) ==
    IF Lt0_001(AbsUnity(factor))
    THEN ""
    ELSE "volume=" \o db_text(factor) \o "dB"

\* a mutant of build_audio_filter_chain: the volume stage is pushed before
\* the tempo stage
build_audio_filter_chain_VolumeFirst(eq_preset, speed, volume_level) ==
    LET eq  == IF IsSome(eq_preset) /\ eq_preset_to_filter(Unwrap(eq_preset)) # ""
               THEN <<eq_preset_to_filter(Unwrap(eq_preset))>> ELSE <<>>
        sp  == IF IsSome(speed) /\ Gt0_001(AbsUnity(Unwrap(speed)))
               THEN <<tempo(Unwrap(speed))>> ELSE <<>>
        vol == IF IsSome(volume_level) /\ volume_factor(Unwrap(volume_level)) # ""
               THEN <<volume_factor(Unwrap(volume_level))>> ELSE <<>>
    IN  chain(eq \o vol \o sp)

build_audio_filter_chain(eq_preset, speed, volume_level) ==
    LET eq  == IF IsSome(eq_preset) /\ eq_preset_to_filter(Unwrap(eq_preset)) # ""
               THEN <<eq_preset_to_filter(Unwrap(eq_preset))>> ELSE <<>>
        sp  == IF IsSome(speed) /\ Gt0_001(AbsUnity(Unwrap(speed)))
               THEN <<tempo(Unwrap(speed))>> ELSE <<>>
        vol == IF IsSome(volume_level) /\ volume_factor(Unwrap(volume_level)) # ""
               THEN <<volume_factor(Unwrap(volume_level))>> ELSE <<>>
    IN  chain(eq \o sp \o vol)

---------------------------------------------------------------------------
(* models/enums.rs: the tables of AudioFormat and AudioQuality;             *)
(* transcoder/profiles.rs: TranscodeProfile                                 *)

ffmpeg_format(format) ==
    CASE format = "opus" -> "ogg"
      [] format = "mp3"  -> "mp3"
      [] format = "aac"  -> "adts"
      [] format = "pcm"  -> "s16le"
      [] format = "wav"  -> "wav"
      [] format = "flac" -> "flac"

\* a mutant of bitrate_for_codec: the lossless tier of libopus has no bitrate
bitrate_for_codec_LosslessOpus(quality, codec) ==
    CASE codec = "libopus" ->
            (CASE quality = "low" -> 32 [] quality = "medium" -> 64
               [] quality = "high" -> 128 [] quality = "lossless" -> 0)
      [] codec = "libmp3lame" ->
            (CASE quality = "low" -> 64 [] quality = "medium" -> 128
               [] quality = "high" -> 192 [] quality = "lossless" -> 320)
      [] codec = "aac" ->
            (CASE quality = "low" -> 48 [] quality = "medium" -> 96
               [] quality = "high" -> 160 [] quality = "lossless" -> 256)
      [] codec = "pcm_s16le" -> 0
      [] codec = "flac" -> 0

\* AudioQuality::bitrate_for_codec, in kbps; 0 for the PCM and FLAC codecs
bitrate_for_codec(quality, codec) ==
    CASE codec = "libopus" ->
            (CASE quality = "low" -> 32 [] quality = "medium" -> 64
               [] quality = "high" -> 128 [] quality = "lossless" -> 256)
      [] codec = "libmp3lame" ->
            (CASE quality = "low" -> 64 [] quality = "medium" -> 128
               [] quality = "high" -> 192 [] quality = "lossless" -> 320)
      [] codec = "aac" ->
            (CASE quality = "low" -> 48 [] quality = "medium" -> 96
               [] quality = "high" -> 160 [] quality = "lossless" -> 256)
      [] codec = "pcm_s16le" -> 0
      [] codec = "flac" -> 0

\* AudioQuality::sample_rate, in Hz
AudioQuality_sample_rate(quality) ==
    CASE quality = "low"      -> 24000
      [] quality = "medium"   -> 44100
      [] quality = "high"     -> 48000
      [] quality = "lossless" -> 48000

\* {:.d} of an f32 counted in 1/10000, d = 1 or 2 digits after the point:
\* unit is 10000 / 10^d.  The digits that are cut round to the nearest, a tie
\* to the even neighbour.
FmtFixed(x, unit) ==
    LET a     == Abs(x)
        q     == a \div unit
        r     == a % unit
        n     == IF 2 * r > unit \/ (2 * r = unit /\ q % 2 = 1) THEN q + 1 ELSE q
        scale == 10000 \div unit
        frac  == n % scale
        pad   == IF scale = 100 /\ frac < 10 THEN "0" ELSE ""
    IN  (IF x < 0 THEN "-" ELSE "") \o ToString(n \div scale) \o "."
            \o pad \o ToString(frac)

\* filters::fade_in: format!("afade=t=in:st=0:d={:.2}", duration)
fade_in(duration) == "afade=t=in:st=0:d=" \o FmtFixed(duration, 100)

\* filters::loudnorm
loudnorm(target_lufs) ==
    "loudnorm=I=" \o FmtFixed(target_lufs, 1000)
        \o ":TP=-1.5:LRA=11:print_format=none"

\* a mutant of from_request: an absent channel count becomes mono
from_request_Mono(req) ==
    [ source_url      |-> req.source_url,
      format          |-> req.format,
      codec           |-> req.codec,
      bitrate         |-> IF IsSome(req.bitrate) THEN Unwrap(req.bitrate)
                          ELSE bitrate_for_codec(req.quality, req.codec),
      sample_rate     |-> IF IsSome(req.sample_rate) THEN Unwrap(req.sample_rate)
                          ELSE AudioQuality_sample_rate(req.quality),
      channels        |-> IF IsSome(req.channels) THEN Unwrap(req.channels) ELSE 1,
      normalize       |-> req.normalize,
      target_loudness |-> req.target_loudness,
      fade_in         |-> req.fade_in,
      fade_out        |-> req.fade_out ]

\* TranscodeProfile::from_request (lines 34-53): the profile has no field for
\* audio_filters, quality or output_format
from_request(req) ==
    [ source_url      |-> req.source_url,
      format          |-> req.format,
      codec           |-> req.codec,
      bitrate         |-> IF IsSome(req.bitrate) THEN Unwrap(req.bitrate)
                          ELSE bitrate_for_codec(req.quality, req.codec),
      sample_rate     |-> IF IsSome(req.sample_rate) THEN Unwrap(req.sample_rate)
                          ELSE AudioQuality_sample_rate(req.quality),
      channels        |-> IF IsSome(req.channels) THEN Unwrap(req.channels) ELSE 2,
      normalize       |-> req.normalize,
      target_loudness |-> req.target_loudness,
      fade_in         |-> req.fade_in,
      fade_out        |-> req.fade_out ]

\* a mutant of build_audio_filters: loudnorm is pushed before the fade in
build_audio_filters_LoudnormFirst(profile) ==
    join((IF profile.normalize
          THEN <<loudnorm(profile.target_loudness)>> ELSE <<>>)
         \o (IF IsSome(profile.fade_in)
             THEN <<fade_in(Unwrap(profile.fade_in))>> ELSE <<>>))

\* a mutant of build_audio_filters: a fade out at the start of the stream is
\* compiled for fade_out
build_audio_filters_FadeOut(profile) ==
    join((IF IsSome(profile.fade_in)
          THEN <<fade_in(Unwrap(profile.fade_in))>> ELSE <<>>)
         \o (IF IsSome(profile.fade_out)
             THEN <<"afade=t=out:st=0.00:d=" \o FmtFixed(Unwrap(profile.fade_out), 100)>>
             ELSE <<>>)
         \o (IF profile.normalize
             THEN <<loudnorm(profile.target_loudness)>> ELSE <<>>))

\* TranscodeProfile::build_audio_filters (lines 100-119): fade in, then
\* loudnorm; fade_out is not compiled
build_audio_filters(profile) ==
    join((IF IsSome(profile.fade_in)
          THEN <<fade_in(Unwrap(profile.fade_in))>> ELSE <<>>)
         \o (IF profile.normalize
             THEN <<loudnorm(profile.target_loudness)>> ELSE <<>>))

\* a mutant of build_ffmpeg_args: the bitrate pair is written also for 0
build_ffmpeg_args_ZeroBitrate(profile) ==
    <<"-hide_banner", "-loglevel", "warning", "-y">>
    \o <<"-i", profile.source_url>>
    \o <<"-c:a", ffmpeg_codec(profile.codec)>>
    \o <<"-b:a", ToString(profile.bitrate) \o "k">>
    \o <<"-ar", ToString(profile.sample_rate)>>
    \o <<"-ac", ToString(profile.channels)>>
    \o (IF build_audio_filters(profile) # ""
        THEN <<"-af", build_audio_filters(profile)>> ELSE <<>>)
    \o <<"-f", ffmpeg_format(profile.format)>>
    \o <<"pipe:1">>

\* TranscodeProfile::build_ffmpeg_args (lines 56-97)
build_ffmpeg_args(profile) ==
    <<"-hide_banner", "-loglevel", "warning", "-y">>
    \o <<"-i", profile.source_url>>
    \o <<"-c:a", ffmpeg_codec(profile.codec)>>
    \o (IF profile.bitrate > 0
        THEN <<"-b:a", ToString(profile.bitrate) \o "k">> ELSE <<>>)
    \o <<"-ar", ToString(profile.sample_rate)>>
    \o <<"-ac", ToString(profile.channels)>>
    \o (IF build_audio_filters(profile) # ""
        THEN <<"-af", build_audio_filters(profile)>> ELSE <<>>)
    \o <<"-f", ffmpeg_format(profile.format)>>
    \o <<"pipe:1">>

---------------------------------------------------------------------------
(* lib.rs: AppState; api/transcode.rs: transcode_handler *)

\* AppState.max_concurrent_streams
max_concurrent_streams == MaxConcurrent

\* the Json bodies the sessions of the handler draw: the serde defaults, a
\* speed below the range of validate, an mp3 request with audio_filters, a wav
\* request whose audio_filters compile to nothing, a request that names its
\* format in output_format only
HandlerRequests ==
    { DefaultRequest,
      [DefaultRequest EXCEPT
          !.audio_filters = Some([eq_preset |-> None,
                                  speed     |-> Some(2500),
                                  volume    |-> None])],
      [DefaultRequest EXCEPT !.format = "mp3", !.codec = "libmp3lame",
          !.audio_filters = Some([eq_preset |-> Some("bass_boost"),
                                  speed     |-> Some(15000),
                                  volume    |-> None])],
      [DefaultRequest EXCEPT !.format = "wav", !.codec = "pcm_s16le",
          !.audio_filters = Some([eq_preset |-> Some("flat"),
                                  speed     |-> Some(10000),
                                  volume    |-> Some(10000)])],
      [DefaultRequest EXCEPT !.output_format = Some("mp3"),
                             !.codec = "libmp3lame"] }

\* a mutant of TranscodeResponse: the content type is that of the default
\* format
TranscodeResponse_DefaultType(session_id, req, filter_chain) ==
    [ status          |-> 200,
      session_id      |-> session_id,
      body_status     |-> "processing",
      content_type    |-> content_type(DefaultRequest.format),
      message         |-> "Transcoding started",
      x_transcode_id  |-> session_id,
      x_source_format |-> req.format,
      x_target_codec  |-> ffmpeg_codec(req.codec),
      x_audio_filters |-> IF IsSome(filter_chain) /\ Unwrap(filter_chain) # ""
                          THEN filter_chain ELSE None ]

\* a mutant of TranscodeResponse: the header is written for every compiled
\* chain, also an empty one
TranscodeResponse_EmptyHeader(session_id, req, filter_chain) ==
    [ status          |-> 200,
      session_id      |-> session_id,
      body_status     |-> "processing",
      content_type    |-> content_type(req.format),
      message         |-> "Transcoding started",
      x_transcode_id  |-> session_id,
      x_source_format |-> req.format,
      x_target_codec  |-> ffmpeg_codec(req.codec),
      x_audio_filters |-> filter_chain ]

\* TranscodeResponse::new(..).with_message(..) and the HeaderMap, as sent with 200
TranscodeResponse(session_id, req, filter_chain) ==
    [ status          |-> 200,
      session_id      |-> session_id,
      body_status     |-> "processing",
      content_type    |-> content_type(req.format),
      message         |-> "Transcoding started",
      x_transcode_id  |-> session_id,
      x_source_format |-> req.format,
      x_target_codec  |-> ffmpeg_codec(req.codec),
      x_audio_filters |-> IF IsSome(filter_chain) /\ Unwrap(filter_chain) # ""
                          THEN filter_chain ELSE None ]

\* lines 42-45, 70-79: the chain is compiled only when has_filters
filter_chain_of(req) ==
    IF IsSome(req.audio_filters) /\ has_filters(Unwrap(req.audio_filters))
    THEN Some(build_audio_filter_chain(Unwrap(req.audio_filters).eq_preset,
                                       Unwrap(req.audio_filters).speed,
                                       Unwrap(req.audio_filters).volume))
    ELSE None

\* the Json extractor hands a deserialized request to the handler (lines 33-57)
Receive(s) ==
    /\ pc[s] = "idle"
    /\ \E req \in HandlerRequests :
          request' = [request EXCEPT ![s] = Some(req)]
    /\ pc' = [pc EXCEPT ![s] = "received"]
    /\ steps' = [steps EXCEPT ![s] = Append(@, "receive")]
    /\ UNCHANGED <<transcode_semaphore, permit, response, proc_vars, probe>>

\* a mutant of Validate: the Result of validate() is not looked at
Validate_Unchecked(s) ==
    /\ pc[s] = "received"
    /\ pc' = [pc EXCEPT ![s] = "validated"]
    /\ steps' = [steps EXCEPT ![s] = Append(@, "validate")]
    /\ UNCHANGED <<transcode_semaphore, request, permit, response, proc_vars, probe>>

\* a mutant of Validate: a codec that is not compatible with the format is
\* refused as an unsupported format
Validate_Compatible(s) ==
    /\ pc[s] = "received"
    /\ LET req == Unwrap(request[s])
           res == validate(req)
       IN  IF res.ok /\ is_compatible_with(req.codec, req.format)
           THEN /\ pc' = [pc EXCEPT ![s] = "validated"]
                /\ UNCHANGED response
           ELSE /\ pc' = [pc EXCEPT ![s] = "done"]
                /\ response' = [response EXCEPT ![s] =
                       Some(into_response(
                           IF res.ok
                           THEN AppError("UnsupportedFormat",
                                    req.codec \o " with " \o req.format, 0)
                           ELSE Validation(res.err)))]
    /\ steps' = [steps EXCEPT ![s] = Append(@, "validate")]
    /\ UNCHANGED <<transcode_semaphore, request, permit, proc_vars, probe>>

\* request.validate().map_err(AppError::Validation)?  (lines 59-60)
Validate(s) ==
    /\ pc[s] = "received"
    /\ LET res == validate(Unwrap(request[s]))
       IN  IF res.ok
           THEN /\ pc' = [pc EXCEPT ![s] = "validated"]
                /\ UNCHANGED response
           ELSE /\ pc' = [pc EXCEPT ![s] = "done"]
                /\ response' = [response EXCEPT
                       ![s] = Some(into_response(Validation(res.err)))]
    /\ steps' = [steps EXCEPT ![s] = Append(@, "validate")]
    /\ UNCHANGED <<transcode_semaphore, request, permit, proc_vars, probe>>

\* a mutant of TryAcquire: the gate admits one session more than it has permits
TryAcquire_OffByOne(s) ==
    /\ pc[s] = "validated"
    /\ IF transcode_semaphore >= 0
       THEN /\ transcode_semaphore' = transcode_semaphore - 1
            /\ permit' = [permit EXCEPT ![s] = TRUE]
            /\ pc' = [pc EXCEPT ![s] = "admitted"]
            /\ UNCHANGED response
       ELSE /\ pc' = [pc EXCEPT ![s] = "done"]
            /\ response' = [response EXCEPT ![s] =
                   Some(into_response(ConcurrencyLimitExceeded(max_concurrent_streams)))]
            /\ UNCHANGED <<transcode_semaphore, permit>>
    /\ steps' = [steps EXCEPT ![s] = Append(@, "try_acquire")]
    /\ UNCHANGED <<request, proc_vars, probe>>

\* a mutant of TryAcquire: the error carries the permits left, not the limit
TryAcquire_WrongLimit(s) ==
    /\ pc[s] = "validated"
    /\ IF transcode_semaphore > 0
       THEN /\ transcode_semaphore' = transcode_semaphore - 1
            /\ permit' = [permit EXCEPT ![s] = TRUE]
            /\ pc' = [pc EXCEPT ![s] = "admitted"]
            /\ UNCHANGED response
       ELSE /\ pc' = [pc EXCEPT ![s] = "done"]
            /\ response' = [response EXCEPT ![s] =
                   Some(into_response(ConcurrencyLimitExceeded(transcode_semaphore)))]
            /\ UNCHANGED <<transcode_semaphore, permit>>
    /\ steps' = [steps EXCEPT ![s] = Append(@, "try_acquire")]
    /\ UNCHANGED <<request, proc_vars, probe>>

\* state.transcode_semaphore.try_acquire().map_err(..)?  (lines 62-68):
\* one atomic attempt, no waiting
TryAcquire(s) ==
    /\ pc[s] = "validated"
    /\ IF transcode_semaphore > 0
       THEN /\ transcode_semaphore' = transcode_semaphore - 1
            /\ permit' = [permit EXCEPT ![s] = TRUE]
            /\ pc' = [pc EXCEPT ![s] = "admitted"]
            /\ UNCHANGED response
       ELSE /\ pc' = [pc EXCEPT ![s] = "done"]
            /\ response' = [response EXCEPT ![s] =
                   Some(into_response(ConcurrencyLimitExceeded(max_concurrent_streams)))]
            /\ UNCHANGED <<transcode_semaphore, permit>>
    /\ steps' = [steps EXCEPT ![s] = Append(@, "try_acquire")]
    /\ UNCHANGED <<request, proc_vars, probe>>

\* a mutant of Respond: the permit is forgotten instead of dropped
Respond_Forget(s) ==
    /\ pc[s] = "admitted"
    /\ permit' = [permit EXCEPT ![s] = FALSE]
    /\ response' = [response EXCEPT ![s] =
           Some(TranscodeResponse(s, Unwrap(request[s]),
                                  filter_chain_of(Unwrap(request[s]))))]
    /\ pc' = [pc EXCEPT ![s] = "done"]
    /\ steps' = [steps EXCEPT ![s] =
           @ \o <<"build_audio_filter_chain", "response", "drop_permit", "return_ok">>]
    /\ UNCHANGED <<transcode_semaphore, request, proc_vars, probe>>

\* lines 70-113: compile the filter chain, build the response and its headers,
\* drop(permit), return Ok((headers, Json(response)))
Respond(s) ==
    /\ pc[s] = "admitted"
    /\ transcode_semaphore' = transcode_semaphore + 1
    /\ permit' = [permit EXCEPT ![s] = FALSE]
    /\ response' = [response EXCEPT ![s] =
           Some(TranscodeResponse(s, Unwrap(request[s]),
                                  filter_chain_of(Unwrap(request[s]))))]
    /\ pc' = [pc EXCEPT ![s] = "done"]
    /\ steps' = [steps EXCEPT ![s] =
           @ \o <<"build_audio_filter_chain", "response", "drop_permit", "return_ok">>]
    /\ UNCHANGED <<request, proc_vars, probe>>

\* the handler's future is dropped, or its task unwinds, before it returned:
\* its locals are dropped, and dropping a SemaphorePermit gives the permit back
Abort(s) ==
    /\ pc[s] \in {"received", "validated", "admitted"}
    /\ IF permit[s]
       THEN /\ transcode_semaphore' = transcode_semaphore + 1
            /\ permit' = [permit EXCEPT ![s] = FALSE]
       ELSE UNCHANGED <<transcode_semaphore, permit>>
    /\ pc' = [pc EXCEPT ![s] = "aborted"]
    /\ steps' = [steps EXCEPT ![s] = Append(@, "abort")]
    /\ UNCHANGED <<request, response, proc_vars, probe>>

NoProbe == [fn |-> "none"]

\* AppState::new(max_concurrent_streams): Semaphore::new(max_concurrent_streams)
GateInit ==
    /\ transcode_semaphore = max_concurrent_streams
    /\ pc = [s \in Sessions |-> "idle"]
    /\ request = [s \in Sessions |-> None]
    /\ permit = [s \in Sessions |-> FALSE]
    /\ response = [s \in Sessions |-> None]
    /\ steps = [s \in Sessions |-> <<>>]

Next ==
    \E s \in Sessions :
        \/ Receive(s)
        \/ Validate(s)
        \/ TryAcquire(s)
        \/ Respond(s)
        \/ Abort(s)

---------------------------------------------------------------------------
(* transcoder/ffmpeg.rs: FfmpegProcess *)

\* child[p]: "none" (never started), "running", "exited_ok" and "exited_fail"
\* (it ended by itself with status 0 / not 0), "killed" (ended by SIGKILL).
\* handle[p]: the FfmpegProcess value; owner "none" before spawn, "live" while
\* a caller holds it, "dropped" after it went out of scope, "failed" when spawn
\* returned Err; kill_on_drop: the Command's setting; stdout, stderr:
\* child.stdout / child.stderr are Some; reaped: tokio has seen the exit
\* status; ret: what the last call returned; outs, errs: how many times
\* take_stdout / take_stderr have handed the stream to the caller.
NoHandle ==
    [owner |-> "none", kill_on_drop |-> FALSE, stdout |-> FALSE,
     stderr |-> FALSE, reaped |-> FALSE, ret |-> "none",
     outs |-> 0, errs |-> 0]

ExitStatus(c) ==
    CASE c = "exited_ok"   -> "Ok(exit 0)"
      [] c = "exited_fail" -> "Ok(exit 1)"
      [] c = "killed"      -> "Ok(signal 9)"

\* a mutant of spawn: the command is built without kill_on_drop(true)
spawn_NoKillOnDrop(p) ==
    /\ handle[p].owner = "none"
    /\ \/ /\ child' = [child EXCEPT ![p] = "running"]
          /\ handle' = [handle EXCEPT ![p] =
                 [owner |-> "live", kill_on_drop |-> FALSE, stdout |-> TRUE,
                  stderr |-> TRUE, reaped |-> FALSE, ret |-> "Ok(Self)",
                  outs |-> 0, errs |-> 0]]
       \/ /\ handle' = [handle EXCEPT ![p] =
                 [NoHandle EXCEPT !.owner = "failed",
                                  !.ret = "Err(Ffmpeg)"]]
          /\ UNCHANGED child
    /\ UNCHANGED <<gate_vars, probe>>

\* FfmpegProcess::spawn (lines 27-45): stdin null, stdout and stderr piped,
\* kill_on_drop(true); the OS may refuse to start the program
spawn(p) ==
    /\ handle[p].owner = "none"
    /\ \/ /\ child' = [child EXCEPT ![p] = "running"]
          /\ handle' = [handle EXCEPT ![p] =
                 [owner |-> "live", kill_on_drop |-> TRUE, stdout |-> TRUE,
                  stderr |-> TRUE, reaped |-> FALSE, ret |-> "Ok(Self)",
                  outs |-> 0, errs |-> 0]]
       \/ /\ handle' = [handle EXCEPT ![p] =
                 [NoHandle EXCEPT !.owner = "failed",
                                  !.ret = "Err(Ffmpeg)"]]
          /\ UNCHANGED child
    /\ UNCHANGED <<gate_vars, probe>>

Held(p) == handle[p].owner = "live"

\* the encoder ends by itself, with status 0 or another
child_exits(p) ==
    /\ child[p] = "running"
    /\ \E c \in {"exited_ok", "exited_fail"} :
          child' = [child EXCEPT ![p] = c]
    /\ UNCHANGED <<handle, gate_vars, probe>>

\* a mutant of take_stdout: the stream is handed out and left in place
\* (a clone or as_mut instead of take)
take_stdout_Keep(p) ==
    /\ Held(p)
    /\ handle' = [handle EXCEPT
           ![p].ret  = IF handle[p].stdout
                       THEN "Some(ChildStdout)" ELSE "None of ChildStdout",
           ![p].outs = IF handle[p].stdout THEN @ + 1 ELSE @]
    /\ UNCHANGED <<child, gate_vars, probe>>

\* take_stdout (lines 47-50): self.child.stdout.take(); Option::take leaves
\* None behind
take_stdout(p) ==
    /\ Held(p)
    /\ handle' = [handle EXCEPT
           ![p].stdout = FALSE,
           ![p].ret    = IF handle[p].stdout
                         THEN "Some(ChildStdout)" ELSE "None of ChildStdout",
           ![p].outs   = IF handle[p].stdout THEN @ + 1 ELSE @]
    /\ UNCHANGED <<child, gate_vars, probe>>

\* take_stderr (lines 52-55): self.child.stderr.take()
take_stderr(p) ==
    /\ Held(p)
    /\ handle' = [handle EXCEPT
           ![p].stderr = FALSE,
           ![p].ret    = IF handle[p].stderr
                         THEN "Some(ChildStderr)" ELSE "None of ChildStderr",
           ![p].errs   = IF handle[p].stderr THEN @ + 1 ELSE @]
    /\ UNCHANGED <<child, gate_vars, probe>>

\* is_running (lines 57-60): try_wait().ok().flatten().is_none(); a try_wait
\* that finds the exit status keeps it
is_running(p) ==
    /\ Held(p)
    /\ handle' = [handle EXCEPT ![p].reaped = @ \/ child[p] # "running",
                                ![p].ret = IF child[p] = "running"
                                           THEN "true" ELSE "false"]
    /\ UNCHANGED <<child, gate_vars, probe>>

\* kill (lines 62-68): tokio Child::kill is start_kill() then wait().  On a
\* child whose exit status tokio already holds, start_kill answers Err
\* (InvalidInput) or Ok(()), depending on the tokio release.
kill(p) ==
    /\ Held(p)
    /\ IF handle[p].reaped
       THEN /\ \E r \in {"Ok(())", "Err(Ffmpeg)"} :
                  handle' = [handle EXCEPT ![p].ret = r]
            /\ UNCHANGED child
       ELSE /\ child' = [child EXCEPT ![p] =
                   IF @ = "running" THEN "killed" ELSE @]
            /\ handle' = [handle EXCEPT ![p].reaped = TRUE,
                                        ![p].ret = "Ok(())"]
    /\ UNCHANGED <<gate_vars, probe>>

\* wait (lines 70-76): returns once the child has ended
wait(p) ==
    /\ Held(p)
    /\ child[p] # "running"
    /\ handle' = [handle EXCEPT ![p].reaped = TRUE,
                                ![p].ret = ExitStatus(child[p])]
    /\ UNCHANGED <<child, gate_vars, probe>>

\* the FfmpegProcess value goes out of scope: a Child made with
\* kill_on_drop(true) kills its process when it is dropped
drop_process(p) ==
    /\ Held(p)
    /\ child' = [child EXCEPT ![p] =
           IF @ = "running" /\ handle[p].kill_on_drop THEN "killed" ELSE @]
    /\ handle' = [handle EXCEPT ![p].owner = "dropped",
                                ![p].ret = IF child[p] = "running"
                                           THEN "dropped running" ELSE "dropped ended"]
    /\ UNCHANGED <<gate_vars, probe>>

NextProc ==
    \E p \in Procs :
        \/ spawn(p)
        \/ child_exits(p)
        \/ take_stdout(p)
        \/ take_stderr(p)
        \/ is_running(p)
        \/ kill(p)
        \/ wait(p)
        \/ drop_process(p)

ProcInit ==
    /\ child = [p \in Procs |-> "none"]
    /\ handle = [p \in Procs |-> NoHandle]

---------------------------------------------------------------------------
(* Callers of the pure functions: validate and into_response *)

\* a request that differs from r in one field, on and around every limit
\* that validate tests
OneFieldSet(r) ==
    {[r EXCEPT !.source_url = ""]}
    \cup {[r EXCEPT !.bitrate = Some(b)] : b \in {7, 8, 512, 513}}
    \cup {[r EXCEPT !.sample_rate = Some(sr)] : sr \in valid_rates \cup {22050}}
    \cup {[r EXCEPT !.channels = Some(ch)] : ch \in {0, 1, 2, 3}}
    \cup {[r EXCEPT !.audio_filters =
              Some([eq_preset |-> None, speed |-> sp, volume |-> vol])] :
            sp  \in {None, Some(4900), Some(5000), Some(20000), Some(20100)},
            vol \in {None, Some(-100), Some(0), Some(20000), Some(20100)}}
    \cup {[r EXCEPT !.fade_in = Some(f)] : f \in {-100, 0, 300000, 300100}}
    \cup {[r EXCEPT !.fade_out = Some(f)] : f \in {-100, 0, 300000, 300100}}
    \cup {[r EXCEPT !.target_loudness = t] : t \in {-700100, -700000, 0, 100}}

RECURSIVE RequestsWithFieldsSet(_)
\* the requests that differ from the serde defaults in at most n fields
RequestsWithFieldsSet(n) ==
    IF n = 0 THEN {DefaultRequest}
    ELSE LET less == RequestsWithFieldsSet(n - 1)
         IN  less \cup UNION {OneFieldSet(r) : r \in less}

ProbeRequests == RequestsWithFieldsSet(MaxFieldsSet)

\* texts an error may carry
Details ==
    { "source_url is required",
      "Failed to spawn FFmpeg: No such file or directory (os error 2)",
      "/var/lib/transcoder/cache: Permission denied (os error 13)" }

ProbeErrors ==
    {AppError(k, m, 0) : k \in ErrorKinds \ {"ConcurrencyLimitExceeded"}, m \in Details}
    \cup {ConcurrencyLimitExceeded(n) : n \in {1, 10, 50}}

ValidateInit ==
    /\ GateInit
    /\ ProcInit
    /\ \E req \in ProbeRequests :
          probe = [fn |-> "validate", req |-> req, ret |-> None]

\* req.validate()
call_validate ==
    /\ probe.fn = "validate"
    /\ probe.ret = None
    /\ probe' = [probe EXCEPT !.ret = Some(validate(probe.req))]
    /\ UNCHANGED <<gate_vars, proc_vars>>

ErrInit ==
    /\ GateInit
    /\ ProcInit
    /\ \E a \in ProbeErrors, b \in ProbeErrors :
          probe = [fn |-> "into_response", a |-> a, b |-> b,
                   ra |-> None, rb |-> None]

\* a.into_response() and b.into_response()
call_into_response ==
    /\ probe.fn = "into_response"
    /\ probe.ra = None
    /\ probe' = [probe EXCEPT !.ra = Some(into_response(probe.a)),
                              !.rb = Some(into_response(probe.b))]
    /\ UNCHANGED <<gate_vars, proc_vars>>

\* the effect settings a probed request carries together: normalize,
\* target_loudness, fade_in, fade_out
ProfileEffects ==
    { <<FALSE, -160000, None, None>>,
      <<TRUE, -230000, None, None>>,
      <<FALSE, -160000, Some(25000), Some(30000)>>,
      <<TRUE, -140000, Some(5000), None>> }

\* requests for from_request: every format, codec and quality, each optional
\* number absent and present, with and without audio_filters
ProfileRequests ==
    { [DefaultRequest EXCEPT
          !.format = fmt, !.codec = cod, !.quality = q,
          !.bitrate = br, !.sample_rate = sr, !.channels = ch,
          !.audio_filters = af,
          !.normalize = fx[1], !.target_loudness = fx[2],
          !.fade_in = fx[3], !.fade_out = fx[4]] :
        fmt \in AudioFormat, cod \in AudioCodec, q \in AudioQuality,
        br \in {None, Some(320)}, sr \in {None, Some(8000)},
        ch \in {None, Some(1)},
        af \in {None, Some([eq_preset |-> Some("bass_boost"),
                            speed     |-> Some(15000),
                            volume    |-> Some(5000)])},
        fx \in ProfileEffects }

ProfileInit ==
    /\ GateInit
    /\ ProcInit
    /\ \E req \in ProfileRequests :
          probe = [fn |-> "profile", req |-> req, profile |-> None, args |-> None]

\* TranscodeProfile::from_request(&req)
call_from_request ==
    /\ probe.fn = "profile"
    /\ probe.profile = None
    /\ probe' = [probe EXCEPT !.profile = Some(from_request(probe.req))]
    /\ UNCHANGED <<gate_vars, proc_vars>>

\* profile.build_ffmpeg_args()
call_build_ffmpeg_args ==
    /\ probe.fn = "profile"
    /\ IsSome(probe.profile)
    /\ probe.args = None
    /\ probe' = [probe EXCEPT !.args = Some(build_ffmpeg_args(Unwrap(probe.profile)))]
    /\ UNCHANGED <<gate_vars, proc_vars>>

NextProfile == call_from_request \/ call_build_ffmpeg_args

\* the arguments of build_audio_filter_chain: every preset, speeds and
\* volumes on and around 1.0 and on the limits of validate
FilterArgs ==
    [ eq_preset : {None} \cup {Some(e) : e \in EqPreset},
      speed     : {None, Some(5000), Some(9989), Some(9990), Some(10000),
                   Some(10005), Some(10010), Some(10020), Some(15000),
                   Some(20000)},
      volume    : {None, Some(0), Some(5000), Some(9989), Some(9990),
                   Some(10000), Some(10010), Some(20000)} ]

FilterInit ==
    /\ GateInit
    /\ ProcInit
    /\ \E a \in FilterArgs :
          probe = [fn |-> "filters", a |-> a, ret |-> None,
                   eq |-> None, tempo |-> None, vol |-> None]

\* build_audio_filter_chain(eq_preset, speed, volume_level), and the same
\* call with one stage at a time
call_build_audio_filter_chain ==
    /\ probe.fn = "filters"
    /\ probe.ret = None
    /\ probe' = [probe EXCEPT
          !.ret   = Some(build_audio_filter_chain(
                            probe.a.eq_preset, probe.a.speed, probe.a.volume)),
          !.eq    = Some(build_audio_filter_chain(probe.a.eq_preset, None, None)),
          !.tempo = Some(build_audio_filter_chain(None, probe.a.speed, None)),
          !.vol   = Some(build_audio_filter_chain(None, None, probe.a.volume))]
    /\ UNCHANGED <<gate_vars, proc_vars>>

\* requests that are valid but for their fade_out, and the fade_out values
\* two of them differ in: absent, on and inside the limits, outside them
FadeBases ==
    { DefaultRequest,
      [DefaultRequest EXCEPT !.normalize = TRUE, !.target_loudness = -230000],
      [DefaultRequest EXCEPT !.format = "mp3", !.codec = "libmp3lame",
          !.normalize = TRUE, !.fade_in = Some(25000),
          !.audio_filters = Some([eq_preset |-> Some("bass_boost"),
                                  speed     |-> Some(15000),
                                  volume    |-> Some(5000)])] }

FadeOuts == {None, Some(0), Some(150000), Some(300000), Some(-100), Some(300100)}

\* what compiling and answering a request gives: the result of validate, the
\* argument vector of its profile, the chain and the answer of the handler
Compile(req) ==
    [ valid    |-> validate(req),
      args     |-> build_ffmpeg_args(from_request(req)),
      chain    |-> filter_chain_of(req),
      response |-> IF validate(req).ok
                   THEN TranscodeResponse(1, req, filter_chain_of(req))
                   ELSE into_response(Validation(validate(req).err)) ]

FadeOutInit ==
    /\ GateInit
    /\ ProcInit
    /\ \E base \in FadeBases, fa \in FadeOuts, fb \in FadeOuts :
          probe = [fn |-> "fade_out",
                   a  |-> [base EXCEPT !.fade_out = fa],
                   b  |-> [base EXCEPT !.fade_out = fb],
                   ra |-> None, rb |-> None]

\* validate, from_request, build_ffmpeg_args and the handler's reply, for two
\* requests that differ in fade_out at most
call_compile_pair ==
    /\ probe.fn = "fade_out"
    /\ probe.ra = None
    /\ probe' = [probe EXCEPT !.ra = Some(Compile(probe.a)),
                              !.rb = Some(Compile(probe.b))]
    /\ UNCHANGED <<gate_vars, proc_vars>>

\* the factors of tempo: 0.0 to 5.0 in steps of 0.025
TempoFactors == {k * 250 : k \in 0 .. 200}

TempoInit ==
    /\ GateInit
    /\ ProcInit
    /\ \E f \in TempoFactors :
          probe = [fn |-> "tempo", factor |-> f, ret |-> None]

\* tempo(factor)
call_tempo ==
    /\ probe.fn = "tempo"
    /\ probe.ret = None
    /\ probe' = [probe EXCEPT !.ret = Some(tempo(probe.factor))]
    /\ UNCHANGED <<gate_vars, proc_vars>>

---------------------------------------------------------------------------
(* Specifications *)

Init ==
    /\ GateInit
    /\ ProcInit
    /\ probe = NoProbe

\* the service: concurrent sessions of transcode_handler over one gate
Spec == Init /\ [][Next]_vars

\* a caller driving FfmpegProcess values
SpecProc == Init /\ [][NextProc]_vars

\* TranscodeRequest::validate on the requests of ProbeRequests
SpecValidate == ValidateInit /\ [][call_validate]_vars

\* AppError::into_response on pairs of errors
SpecErr == ErrInit /\ [][call_into_response]_vars

\* TranscodeProfile::from_request and build_ffmpeg_args on ProfileRequests
SpecProfile == ProfileInit /\ [][NextProfile]_vars

\* build_audio_filter_chain on FilterArgs
SpecFilters == FilterInit /\ [][call_build_audio_filter_chain]_vars

\* tempo on TempoFactors
SpecTempo == TempoInit /\ [][call_tempo]_vars

\* validation and compilation of pairs of requests that differ in fade_out
SpecFadeOut == FadeOutInit /\ [][call_compile_pair]_vars

---------------------------------------------------------------------------
(* Properties of the admission gate and of transcode_handler, under Spec *)

Holders == {s \in Sessions : permit[s]}

Ended(s) == pc[s] \in {"done", "aborted"}

Answered(s, status) ==
    /\ pc[s] = "done"
    /\ IsSome(response[s])
    /\ Unwrap(response[s]).status = status

\* the request of s fails validation
Invalid(req) == IsSome(req) /\ ~validate(Unwrap(req)).ok

\* C1: at most N permits are held at any time and the permits left are N
\* minus those held; a try-acquire succeeds exactly when fewer than N are
\* held; one that fails ends the request in the same step (the session is
\* never left waiting: while it is at the gate the attempt can be made); a
\* release leaves a permit that a further acquisition can take.
C1_AdmissionGate ==
    /\ [](/\ Cardinality(Holders) <= MaxConcurrent
          /\ transcode_semaphore = MaxConcurrent - Cardinality(Holders)
          /\ \A s \in Sessions : pc[s] = "validated" => ENABLED TryAcquire(s))
    /\ [][\A s \in Sessions :
            /\ (pc[s] = "validated" /\ pc'[s] \notin {"validated", "aborted"}) =>
                  /\ permit'[s] <=> Cardinality(Holders) < MaxConcurrent
                  /\ permit'[s] <=> pc'[s] = "admitted"
                  /\ ~permit'[s] <=> pc'[s] = "done"
            /\ (permit[s] /\ ~permit'[s]) => transcode_semaphore' > 0
         ]_vars

\* C1 witness: N sessions hold a permit and one more was turned away
C1_Witness ==
    /\ Cardinality(Holders) = MaxConcurrent
    /\ \E s \in Sessions : Answered(s, 503)

\* C2: once every request has ended, whichever way, the gate has all N
\* permits again; no ended request holds a permit.
C2_NoPermitLeak ==
    /\ \A s \in Sessions : Ended(s) => ~permit[s]
    /\ (\A s \in Sessions : Ended(s)) => transcode_semaphore = MaxConcurrent

\* C2 witness: all requests have ended, one answered 200, one turned away,
\* one cut off while it held a permit
C2_Witness ==
    /\ \A s \in Sessions : Ended(s)
    /\ \E s \in Sessions : Answered(s, 200)
    /\ \E s \in Sessions : Answered(s, 503)
    /\ \E s \in Sessions :
          pc[s] = "aborted" /\ steps[s] = <<"receive", "validate", "try_acquire", "abort">>

\* the state of a session as the client and the gate see it: cancelled when
\* the handler was cut off, failed when it was answered an error, else the
\* TranscodeStatus of the answer, and in flight before that
SessionState(pcs, resp) ==
    IF pcs = "aborted" THEN "cancelled"
    ELSE IF IsSome(resp) /\ Unwrap(resp).status = 200 THEN Unwrap(resp).body_status
    ELSE IF IsSome(resp) THEN "failed"
    ELSE "in flight"

RunningEncoders == {p \in Procs : child[p] = "running"}

\* C3, as the claim states it: at most N encoder subprocesses run, an encoder
\* runs only for a session that holds a permit, and a permit is given back
\* only when its session reaches completed, failed or cancelled.
C3_AsStated ==
    /\ [](Cardinality(RunningEncoders) <= MaxConcurrent)
    /\ [][\A s \in Sessions :
            (permit[s] /\ ~permit'[s]) =>
                SessionState(pc'[s], response'[s]) \in {"completed", "failed", "cancelled"}
         ]_vars

\* C4, as the claim states it: a request answered 200 has had its profile
\* built and its encoder subprocess spawned, between validation and the
\* release of its permit.
C4_AsStated ==
    \A s \in Sessions :
        Answered(s, 200) =>
            \E i, j, k, l \in 1 .. Len(steps[s]) :
                /\ i < j /\ j < k /\ k < l
                /\ steps[s][i] = "validate"
                /\ steps[s][j] = "from_request"
                /\ steps[s][k] = "spawn"
                /\ steps[s][l] = "drop_permit"

\* C5: a request that fails validation never holds a permit and never comes
\* to the gate, no step of its handling changes the permits left, and it is
\* answered 400 VALIDATION_ERROR, also when no permit is left.
C5_ValidationBeforeResources ==
    /\ [](\A s \in Sessions :
            Invalid(request[s]) =>
                /\ ~permit[s]
                /\ pc[s] \notin {"validated", "admitted"}
                /\ \A i \in 1 .. Len(steps[s]) :
                      steps[s][i] \notin {"try_acquire", "build_audio_filter_chain"}
                /\ pc[s] = "done" =>
                      /\ Unwrap(response[s]).status = 400
                      /\ Unwrap(response[s]).code = "VALIDATION_ERROR")
    /\ [][\A s \in Sessions :
            (Invalid(request'[s]) /\ pc'[s] # pc[s]) =>
                transcode_semaphore' = transcode_semaphore
         ]_vars

\* C5 witness: no permit is left and a request was answered 400
C5_Witness ==
    /\ transcode_semaphore = 0
    /\ \E s \in Sessions : Invalid(request[s]) /\ Answered(s, 400)

\* C6: a valid request that comes to the gate when no permit is left is
\* answered, in that step, 503 CONCURRENCY_LIMIT_EXCEEDED with the message
\* that carries N; it takes no permit and the permits left do not change;
\* nothing is compiled for it and its state never changes again.
C6_RejectedAtCapacity ==
    /\ [][\A s \in Sessions :
            /\ (/\ pc[s] = "validated"
                /\ transcode_semaphore = 0
                /\ pc'[s] \notin {"validated", "aborted"}) =>
                  /\ pc'[s] = "done"
                  /\ response'[s] =
                        Some([status  |-> 503,
                              code    |-> "CONCURRENCY_LIMIT_EXCEEDED",
                              message |-> "Server is at capacity. Maximum "
                                  \o ToString(MaxConcurrent)
                                  \o " concurrent streams allowed."])
                  /\ ~permit'[s]
                  /\ transcode_semaphore' = transcode_semaphore
            /\ pc[s] = "done" =>
                  pc'[s] = "done" /\ response'[s] = response[s] /\ steps'[s] = steps[s]
         ]_vars
    /\ [](\A s \in Sessions :
            Answered(s, 503) =>
                /\ ~permit[s]
                /\ steps[s] = <<"receive", "validate", "try_acquire">>)

\* C6 witness: a valid request was answered 503 and no permit is left
C6_Witness ==
    /\ transcode_semaphore = 0
    /\ \E s \in Sessions : ~Invalid(request[s]) /\ Answered(s, 503)

\* C11, as the claim states it: a session that has ended has ended in
\* completed (its encoder left with status 0), failed or cancelled, with its
\* permit given back.
C11_AsStated ==
    \A s \in Sessions :
        Ended(s) =>
            /\ ~permit[s]
            /\ SessionState(pc[s], response[s]) \in {"completed", "failed", "cancelled"}

\* C19: a request that has passed validation and admission is answered 200
\* in its next step; the answer has the session's id, status "processing",
\* the MIME type of the request's format and, in X-Target-Codec, the name of
\* the request's codec: audio/ogg and libopus for the default format and
\* codec.
C19_SuccessResponse ==
    /\ [](\A s \in Sessions :
            Answered(s, 200) =>
                LET req  == Unwrap(request[s])
                    resp == Unwrap(response[s])
                IN  /\ validate(req).ok
                    /\ resp.session_id = s
                    /\ resp.body_status = "processing"
                    /\ resp.content_type = content_type(req.format)
                    /\ resp.x_target_codec = req.codec
                    /\ req.format = "opus" => resp.content_type = "audio/ogg"
                    /\ req.format = "mp3" => resp.content_type = "audio/mpeg"
                    /\ req.format = "wav" => resp.content_type = "audio/wav"
                    /\ req.codec = DefaultRequest.codec => resp.x_target_codec = "libopus")
    /\ [][\A s \in Sessions :
            (pc[s] = "admitted" /\ pc'[s] \notin {"admitted", "aborted"}) =>
                /\ pc'[s] = "done"
                /\ IsSome(response'[s])
                /\ Unwrap(response'[s]).status = 200
         ]_vars

\* C19 witness: the default request answered audio/ogg and libopus, and an mp3
\* request answered audio/mpeg and libmp3lame
C19_Witness ==
    /\ \E s \in Sessions :
          /\ Answered(s, 200)
          /\ request[s] = Some(DefaultRequest)
          /\ Unwrap(response[s]).content_type = "audio/ogg"
          /\ Unwrap(response[s]).x_target_codec = "libopus"
    /\ \E s \in Sessions :
          /\ Answered(s, 200)
          /\ Unwrap(request[s]).format = "mp3"
          /\ Unwrap(response[s]).content_type = "audio/mpeg"
          /\ Unwrap(response[s]).x_target_codec = "libmp3lame"

\* the chain the audio_filters of a request compile to, "" without them
CompiledChain(req) ==
    IF req.audio_filters = None THEN ""
    ELSE build_audio_filter_chain(req.audio_filters[1].eq_preset,
                                  req.audio_filters[1].speed,
                                  req.audio_filters[1].volume)

\* C20: the answer 200 has X-Audio-Filters exactly when the chain compiled
\* for the request is not empty, and its value is that chain; a request
\* without audio_filters, or with audio_filters that compile to nothing, has
\* no such header.
C20_AudioFiltersHeader ==
    \A s \in Sessions :
        Answered(s, 200) =>
            LET req  == Unwrap(request[s])
                resp == Unwrap(response[s])
            IN  /\ IsSome(resp.x_audio_filters) <=> CompiledChain(req) # ""
                /\ IsSome(resp.x_audio_filters) =>
                      resp.x_audio_filters = Some(CompiledChain(req))
                /\ req.audio_filters = None => resp.x_audio_filters = None
                /\ req.audio_filters = Some([eq_preset |-> Some("flat"),
                                             speed     |-> Some(10000),
                                             volume    |-> Some(10000)]) =>
                      resp.x_audio_filters = None

\* C20 witness: one answer with the header and its chain, one answer without
\* it to a request whose audio_filters compile to nothing
C20_Witness ==
    /\ \E s \in Sessions :
          /\ Answered(s, 200)
          /\ Unwrap(response[s]).x_audio_filters =
                Some("equalizer=f=100:width_type=o:width=1.00:g=6.0,atempo=1.5000")
    /\ \E s \in Sessions :
          /\ Answered(s, 200)
          /\ IsSome(Unwrap(request[s]).audio_filters)
          /\ Unwrap(response[s]).x_audio_filters = None

\* C21, as the claim states it: a request that names its format in
\* output_format, and has no format field, is answered with the content type
\* and the X-Source-Format of the format so named.
C21_AsStated ==
    \A s \in Sessions :
        (/\ Answered(s, 200)
         /\ IsSome(Unwrap(request[s]).output_format)
         /\ Unwrap(request[s]).format = DefaultRequest.format) =>
            /\ Unwrap(response[s]).content_type =
                  content_type(Unwrap(Unwrap(request[s]).output_format))
            /\ Unwrap(response[s]).x_source_format =
                  Unwrap(Unwrap(request[s]).output_format)

---------------------------------------------------------------------------
(* Properties of validate, under SpecValidate *)

AbsentOrWithin(o, lo, hi) == o = None \/ (lo <= Unwrap(o) /\ Unwrap(o) <= hi)

\* the rules of the request model, every bound included
RulesHold(req) ==
    /\ req.source_url # ""
    /\ AbsentOrWithin(req.bitrate, 8, 512)
    /\ req.sample_rate \in
          {None, Some(8000), Some(12000), Some(16000), Some(24000),
           Some(44100), Some(48000), Some(96000)}
    /\ req.channels \in {None, Some(1), Some(2)}
    /\ \/ req.audio_filters = None
       \/ /\ AbsentOrWithin(Unwrap(req.audio_filters).speed, 5000, 20000)
          /\ AbsentOrWithin(Unwrap(req.audio_filters).volume, 0, 20000)
    /\ AbsentOrWithin(req.fade_in, 0, 300000)
    /\ AbsentOrWithin(req.fade_out, 0, 300000)
    /\ -700000 <= req.target_loudness /\ req.target_loudness <= 0

Validated == probe.fn = "validate" /\ IsSome(probe.ret)

\* C7: validate succeeds if and only if every rule of the request model
\* holds, each bound being inclusive.
C7_ValidateIffRules ==
    Validated => (Unwrap(probe.ret).ok <=> RulesHold(probe.req))

\* C7 witness: a request on two upper bounds (bitrate 512, speed 2.0) passed
C7_Witness ==
    /\ Validated
    /\ Unwrap(probe.ret).ok
    /\ probe.req.bitrate = Some(512)
    /\ IsSome(probe.req.audio_filters)
    /\ Unwrap(probe.req.audio_filters).speed = Some(20000)

---------------------------------------------------------------------------
(* Properties of into_response, under SpecErr *)

Mapped == probe.fn = "into_response" /\ IsSome(probe.ra)

\* the error taxonomy: kind -> <<status, code>>
Taxonomy(kind) ==
    CASE kind = "Validation"               -> <<400, "VALIDATION_ERROR">>
      [] kind = "UnsupportedFormat"        -> <<400, "UNSUPPORTED_FORMAT">>
      [] kind = "SourceUnavailable"        -> <<400, "SOURCE_UNAVAILABLE">>
      [] kind = "FilterInvalid"            -> <<400, "FILTER_INVALID">>
      [] kind = "ConcurrencyLimitExceeded" -> <<503, "CONCURRENCY_LIMIT_EXCEEDED">>
      [] kind = "Ffmpeg"                   -> <<500, "FFMPEG_ERROR">>
      [] kind = "Io"                       -> <<500, "IO_ERROR">>
      [] kind = "Timeout"                  -> <<504, "TIMEOUT">>
      [] kind = "Internal"                 -> <<500, "INTERNAL_ERROR">>

\* C8: every error kind is answered with the status and the code of the
\* taxonomy, and a validation failure with the message of the violated rule.
C8_ErrorTaxonomy ==
    Mapped =>
        /\ <<Unwrap(probe.ra).status, Unwrap(probe.ra).code>> = Taxonomy(probe.a.kind)
        /\ probe.a.kind = "Validation" => Unwrap(probe.ra).message = probe.a.msg

\* C8 witness: the failure of the source_url rule, answered
C8_Witness ==
    /\ Mapped
    /\ probe.a = Validation(validate([DefaultRequest EXCEPT !.source_url = ""]).err)
    /\ Unwrap(probe.ra) =
          [status |-> 400, code |-> "VALIDATION_ERROR", message |-> "source_url is required"]

\* a and b are errors of one kind that differ in nothing but their text
SameButText == probe.a.kind = probe.b.kind /\ probe.a.limit = probe.b.limit

\* C9, as the claim states it: two errors of one 5xx kind that differ only
\* in their text are answered alike.
C9_AsStated ==
    (Mapped /\ SameButText /\ Unwrap(probe.ra).status >= 500) =>
        probe.ra = probe.rb

\* C9, amended: the same for every 5xx kind but Timeout.
C9_NoDetailIn5xxButTimeout ==
    (Mapped /\ SameButText /\ Unwrap(probe.ra).status >= 500
        /\ probe.a.kind # "Timeout") =>
            probe.ra = probe.rb

\* C9 witness: two encoder failures with different texts, answered alike
C9_Witness ==
    /\ Mapped
    /\ probe.a.kind = "Ffmpeg" /\ probe.b.kind = "Ffmpeg"
    /\ probe.a.msg # probe.b.msg
    /\ probe.ra = probe.rb

---------------------------------------------------------------------------
(* Properties of FfmpegProcess, under SpecProc *)

\* C10: an encoder subprocess runs only while a live FfmpegProcess owns it:
\* when the value is dropped before the process has ended, the process is
\* killed.
C10_NoOrphanEncoder ==
    /\ [](\A p \in Procs : child[p] = "running" => handle[p].owner = "live")
    /\ [][\A p \in Procs :
            (handle[p].owner = "live" /\ handle'[p].owner # "live") =>
                child'[p] \in {"exited_ok", "exited_fail", "killed"}
         ]_vars

\* C10 witness: a process was still running when its owner was dropped, and
\* it is dead
C10_Witness ==
    \E p \in Procs :
        /\ handle[p].owner = "dropped"
        /\ handle[p].ret = "dropped running"
        /\ child[p] = "killed"

\* C12: each of take_stdout and take_stderr hands its stream out at most
\* once: the first call yields the stream, a call yields nothing only after
\* the stream was handed out, and taking one stream leaves the other where it
\* is (it is there as long as it was not taken itself).
C12_StreamsTakenOnce ==
    /\ [](\A p \in Procs :
            /\ handle[p].outs <= 1
            /\ handle[p].errs <= 1
            /\ handle[p].ret = "Some(ChildStdout)" => handle[p].outs = 1
            /\ handle[p].ret = "None of ChildStdout" => handle[p].outs = 1
            /\ handle[p].ret = "Some(ChildStderr)" => handle[p].errs = 1
            /\ handle[p].ret = "None of ChildStderr" => handle[p].errs = 1
            /\ Held(p) => /\ handle[p].stdout <=> handle[p].outs = 0
                          /\ handle[p].stderr <=> handle[p].errs = 0)
    /\ [][\A p \in Procs :
            /\ handle'[p].outs # handle[p].outs =>
                  /\ handle'[p].errs = handle[p].errs
                  /\ handle'[p].stderr = handle[p].stderr
            /\ handle'[p].errs # handle[p].errs =>
                  /\ handle'[p].outs = handle[p].outs
                  /\ handle'[p].stdout = handle[p].stdout
         ]_vars

\* C12 witness: both streams were handed out once, and a second take_stdout
\* has yielded nothing
C12_Witness ==
    \E p \in Procs :
        /\ handle[p].outs = 1
        /\ handle[p].errs = 1
        /\ handle[p].ret = "None of ChildStdout"

---------------------------------------------------------------------------
(* Properties of TranscodeProfile, under SpecProfile *)

Resolved == probe.fn = "profile" /\ IsSome(probe.profile)

Built == probe.fn = "profile" /\ IsSome(probe.args)

\* the pair <<flag, value>> when present holds, no element otherwise
PairIf(present, flag, value) == IF present THEN <<flag, value>> ELSE <<>>

\* C14: the argument vector of a profile is -hide_banner -loglevel warning -y
\* -i <source> -c:a <codec>, then -b:a <bitrate>k exactly when bitrate > 0,
\* -ar <rate> -ac <channels>, then -af <chain> exactly when the chain of the
\* profile is not empty, -f <container> and pipe:1 last; nothing else.
C14_ArgumentVector ==
    Built =>
        LET pr    == Unwrap(probe.profile)
            a     == Unwrap(probe.args)
            hasBr == pr.bitrate > 0
            hasAf == build_audio_filters(pr) # ""
            ar    == IF hasBr THEN 11 ELSE 9
            f     == IF hasAf THEN ar + 6 ELSE ar + 4
        IN  /\ Len(a) = f + 2
            /\ SubSeq(a, 1, 8) =
                  <<"-hide_banner", "-loglevel", "warning", "-y",
                    "-i", pr.source_url, "-c:a", pr.codec>>
            /\ hasBr <=> \E i \in 1 .. Len(a) : a[i] = "-b:a"
            /\ hasBr => SubSeq(a, 9, 10) = <<"-b:a", ToString(pr.bitrate) \o "k">>
            /\ SubSeq(a, ar, ar + 3) =
                  <<"-ar", ToString(pr.sample_rate), "-ac", ToString(pr.channels)>>
            /\ hasAf <=> \E i \in 1 .. Len(a) : a[i] = "-af"
            /\ hasAf => SubSeq(a, ar + 4, ar + 5) = <<"-af", build_audio_filters(pr)>>
            /\ SubSeq(a, f, f + 2) = <<"-f", ffmpeg_format(pr.format), "pipe:1">>

\* C14 witness: a profile with bitrate 0 and a chain: no -b:a, with -af
C14_Witness ==
    /\ Built
    /\ Unwrap(probe.profile).bitrate = 0
    /\ Unwrap(probe.args) =
          <<"-hide_banner", "-loglevel", "warning", "-y",
            "-i", "https://x/a.mp3", "-c:a", "flac",
            "-ar", "48000", "-ac", "2",
            "-af", "afade=t=in:st=0:d=0.50,loudnorm=I=-14.0:TP=-1.5:LRA=11:print_format=none",
            "-f", "flac", "pipe:1">>

\* a when present, else d
OrElse(o, d) == IF o = None THEN d ELSE o[1]

\* the sample rate of a quality tier, as the request model documents it
QualityRate(quality) ==
    CASE quality = "low" -> 24000 [] quality = "medium" -> 44100
      [] quality \in {"high", "lossless"} -> 48000

\* C15: the profile of a request has the request's bitrate, sample_rate and
\* channels when present, else the table value for (quality, codec), the
\* table value for quality, and 2, each independently of the others; source
\* URL, format, codec, normalize, target_loudness and the fades are those of
\* the request; building the profile leaves the request as it was.
C15_ProfileDefaults ==
    /\ [](Resolved =>
            LET req == probe.req
                pr  == Unwrap(probe.profile)
            IN  /\ pr.bitrate = OrElse(req.bitrate, bitrate_for_codec(req.quality, req.codec))
                /\ pr.sample_rate = OrElse(req.sample_rate, QualityRate(req.quality))
                /\ pr.channels = OrElse(req.channels, 2)
                /\ pr.source_url = req.source_url
                /\ pr.format = req.format
                /\ pr.codec = req.codec
                /\ pr.normalize = req.normalize
                /\ pr.target_loudness = req.target_loudness
                /\ pr.fade_in = req.fade_in
                /\ pr.fade_out = req.fade_out)
    /\ [][probe.fn = "profile" => probe'.req = probe.req]_vars

\* C15 witness: a request with a sample rate and neither bitrate nor
\* channels: the rate is kept, bitrate and channels come from the defaults
C15_Witness ==
    /\ Resolved
    /\ probe.req.quality = "low" /\ probe.req.codec = "libmp3lame"
    /\ probe.req.bitrate = None
    /\ probe.req.sample_rate = Some(8000)
    /\ probe.req.channels = None
    /\ Unwrap(probe.profile).bitrate = 64
    /\ Unwrap(probe.profile).sample_rate = 8000
    /\ Unwrap(probe.profile).channels = 2

\* the chain `whole` is `part`, alone or with the profile's own stages
\* before or after it
Includes(whole, part, pr) ==
    \E pre, post \in {"", build_audio_filters(pr)} \cup
                     (IF IsSome(pr.fade_in) THEN {fade_in(pr.fade_in[1])} ELSE {}) \cup
                     {loudnorm(pr.target_loudness)} :
        whole = chain(<<pre, part, post>>)

\* C16, as the claim states it: when the audio_filters of a valid request
\* compile to a chain that is not empty, the argument vector of the request's
\* profile has -af followed by a chain that includes it.
C16_AsStated ==
    (/\ Built
     /\ validate(probe.req).ok
     /\ filter_chain_of(probe.req) \notin {None, Some("")}) =>
        \E i \in 1 .. (Len(Unwrap(probe.args)) - 1) :
            /\ Unwrap(probe.args)[i] = "-af"
            /\ Includes(Unwrap(probe.args)[i + 1],
                        Unwrap(filter_chain_of(probe.req)),
                        Unwrap(probe.profile))

\* the documented bitrates: <<codec, quality, kbps>>
BitrateTable ==
    { <<"libopus", "low", 32>>, <<"libopus", "medium", 64>>,
      <<"libopus", "high", 128>>, <<"libopus", "lossless", 256>>,
      <<"libmp3lame", "low", 64>>, <<"libmp3lame", "medium", 128>>,
      <<"libmp3lame", "high", 192>>, <<"libmp3lame", "lossless", 320>>,
      <<"aac", "low", 48>>, <<"aac", "medium", 96>>,
      <<"aac", "high", 160>>, <<"aac", "lossless", 256>> }

\* C24: the bitrate resolved for a request without one is the documented
\* constant of its codec and quality, and it is 0 exactly for the codecs
\* pcm_s16le and flac.
C24_BitrateTable ==
    (Resolved /\ probe.req.bitrate = None) =>
        LET req == probe.req
            br  == Unwrap(probe.profile).bitrate
        IN  /\ req.codec \in {"libopus", "libmp3lame", "aac"} =>
                  <<req.codec, req.quality, br>> \in BitrateTable
            /\ br = 0 <=> req.codec \in {"pcm_s16le", "flac"}

\* C24 witness: a request without bitrate, lossless with libopus, resolved to
\* 256
C24_Witness ==
    /\ Resolved
    /\ probe.req.bitrate = None
    /\ probe.req.quality = "lossless"
    /\ probe.req.codec = "libopus"
    /\ Unwrap(probe.profile).bitrate = 256

\* the element after -af in an argument vector, "" when there is no -af
FilterArgument(a) ==
    IF \E i \in 1 .. (Len(a) - 1) : a[i] = "-af"
    THEN a[(CHOOSE i \in 1 .. (Len(a) - 1) : a[i] = "-af") + 1]
    ELSE ""

\* the text of d seconds with two decimals, for the durations drawn
Seconds(d) == CASE d = 5000 -> "0.50" [] d = 25000 -> "2.50"

\* the text of a loudness target with one decimal, for the targets drawn
Lufs(t) == CASE t = -140000 -> "-14.0" [] t = -160000 -> "-16.0"
             [] t = -230000 -> "-23.0"

\* C25: the argument vector has -af exactly when fade_in is present or
\* normalize is true; its chain is the fade-in expression (start 0, the given
\* duration) exactly when fade_in is present, then the loudnorm expression
\* with the profile's target_loudness exactly when normalize is true, one
\* comma between the two.
C25_ProfileFilters ==
    Built =>
        LET pr   == Unwrap(probe.profile)
            a    == Unwrap(probe.args)
            fade == IF IsSome(pr.fade_in)
                    THEN "afade=t=in:st=0:d=" \o Seconds(pr.fade_in[1]) ELSE ""
            loud == IF pr.normalize
                    THEN "loudnorm=I=" \o Lufs(pr.target_loudness)
                             \o ":TP=-1.5:LRA=11:print_format=none"
                    ELSE ""
        IN  /\ (\E i \in 1 .. Len(a) : a[i] = "-af") <=>
                  (IsSome(pr.fade_in) \/ pr.normalize)
            /\ FilterArgument(a) =
                  (IF fade # "" /\ loud # "" THEN fade \o "," \o loud
                   ELSE fade \o loud)

\* C25 witness: a fade in of 0.5 s and normalization to -14 LUFS
C25_Witness ==
    /\ Built
    /\ Unwrap(probe.profile).fade_in = Some(5000)
    /\ Unwrap(probe.profile).normalize
    /\ FilterArgument(Unwrap(probe.args)) =
          "afade=t=in:st=0:d=0.50,loudnorm=I=-14.0:TP=-1.5:LRA=11:print_format=none"

---------------------------------------------------------------------------
(* Properties of build_audio_filter_chain, under SpecFilters *)

Compiled == probe.fn = "filters" /\ IsSome(probe.ret)

\* x then y, with a comma between them when both are there
Then(x, y) == IF x = "" THEN y ELSE IF y = "" THEN x ELSE x \o "," \o y

\* C17: the chain is the EQ expression, then the tempo expression, then the
\* volume expression, each being what its stage compiles to alone; a stage
\* that compiles to nothing is left out and the others keep their order.
C17_FilterOrder ==
    Compiled =>
        /\ Unwrap(probe.ret) =
              Then(Then(Unwrap(probe.eq), Unwrap(probe.tempo)), Unwrap(probe.vol))
        /\ (/\ probe.a.eq_preset \in {Some("bass_boost"), Some("voice"), Some("treble")}
            /\ probe.a.speed \in {Some(5000), Some(15000), Some(20000)}
            /\ probe.a.volume \in {Some(0), Some(5000), Some(20000)}) =>
              /\ Unwrap(probe.eq) # "" /\ Unwrap(probe.tempo) # "" /\ Unwrap(probe.vol) # ""
              /\ Unwrap(probe.ret) =
                    Unwrap(probe.eq) \o "," \o Unwrap(probe.tempo) \o "," \o Unwrap(probe.vol)

\* C17 witness: bass_boost, speed 1.5 and volume 0.5 together
C17_Witness ==
    /\ Compiled
    /\ probe.a = [eq_preset |-> Some("bass_boost"), speed |-> Some(15000),
                  volume |-> Some(5000)]
    /\ Unwrap(probe.ret) =
          "equalizer=f=100:width_type=o:width=1.00:g=6.0,atempo=1.5000,volume=-6.0dB"

\* 1 when the stage text is there, else 0
Emitted(stage) == IF stage = "" THEN 0 ELSE 1

\* C22: the EQ stage is there exactly when a preset other than flat is given,
\* the tempo stage exactly when a speed is given that differs from 1.0 by more
\* than 0.001, the volume stage exactly when a volume is given that differs
\* from 1.0 by more than 0.001; the chain is empty exactly when no stage is
\* there, and it is the stages with one comma between two of them: no comma
\* leads, trails or is doubled.
C22_StageConditions ==
    Compiled =>
        LET eq  == Unwrap(probe.eq)
            tp  == Unwrap(probe.tempo)
            vol == Unwrap(probe.vol)
            n   == Emitted(eq) + Emitted(tp) + Emitted(vol)
        IN  /\ eq # "" <=> (IsSome(probe.a.eq_preset) /\ probe.a.eq_preset # Some("flat"))
            /\ tp # "" <=> (/\ IsSome(probe.a.speed)
                            /\ Gt0_001(AbsUnity(Unwrap(probe.a.speed))))
            /\ vol # "" <=> (/\ IsSome(probe.a.volume)
                             /\ Gt0_001(AbsUnity(Unwrap(probe.a.volume))))
            /\ Unwrap(probe.ret) = "" <=> n = 0
            /\ Len(Unwrap(probe.ret)) =
                  Len(eq) + Len(tp) + Len(vol) + (IF n = 0 THEN 0 ELSE n - 1)
            /\ probe.a.speed \in {Some(9990), Some(10000), Some(10005)} => tp = ""
            /\ probe.a.speed \in {Some(9989), Some(10010)} => tp # ""
            /\ probe.a.volume \in {Some(9990), Some(10000)} => vol = ""
            /\ probe.a.volume \in {Some(9989), Some(10010)} => vol # ""

\* C22 witness: flat, speed 1.0005 and volume 1.001: the volume stage alone
C22_Witness ==
    /\ Compiled
    /\ probe.a = [eq_preset |-> Some("flat"), speed |-> Some(10005),
                  volume |-> Some(10010)]
    /\ Unwrap(probe.ret) = "volume=0.0dB"

---------------------------------------------------------------------------
(* Properties of tempo, under SpecTempo *)

TempoDone == probe.fn = "tempo" /\ IsSome(probe.ret)

\* C23: from 0.5 to 2.0 tempo gives one expression that carries the factor;
\* below 0.5 two stages, the first 0.5 and the second the larger of 2f and
\* 0.5; above 2.0 two stages, the first 2.0 and the second the smaller of f/2
\* and 2.0.  The value of every stage is between 0.5 and 2.0.
C23_TempoStages ==
    TempoDone =>
        LET f   == probe.factor
            ret == Unwrap(probe.ret)
        IN  /\ (5000 <= f /\ f <= 20000) => ret = "atempo=" \o Fmt4(f)
            /\ f < 5000 =>
                  \E v \in 5000 .. 20000 :
                      /\ v = (IF 2 * f > 5000 THEN 2 * f ELSE 5000)
                      /\ ret = "atempo=0.5,atempo=" \o Fmt4(v)
            /\ f > 20000 =>
                  \E v \in 5000 .. 20000 :
                      /\ 2 * v = (IF f < 40000 THEN f ELSE 40000)
                      /\ ret = "atempo=2.0,atempo=" \o Fmt4(v)
            /\ f = 1000 => ret = "atempo=0.5,atempo=0.5000"
            /\ f = 4000 => ret = "atempo=0.5,atempo=0.8000"
            /\ f = 5000 => ret = "atempo=0.5000"
            /\ f = 20000 => ret = "atempo=2.0000"
            /\ f = 30000 => ret = "atempo=2.0,atempo=1.5000"
            /\ f = 50000 => ret = "atempo=2.0,atempo=2.0000"

\* C23 witness: a factor below 0.25, whose second stage is held at 0.5
C23_Witness ==
    /\ TempoDone
    /\ probe.factor = 1000
    /\ Unwrap(probe.ret) = "atempo=0.5,atempo=0.5000"

---------------------------------------------------------------------------
(* Properties of fade_out, under SpecFadeOut *)

PairDone == probe.fn = "fade_out" /\ IsSome(probe.ra)

\* C26: two requests that differ only in fade_out, each absent or between 0
\* and 30 s, pass validation alike and have the same argument vector, the same
\* chain and the same answer; a fade_out outside 0 to 30 s is rejected with
\* the message of the fade_out rule.
C26_FadeOutNotCompiled ==
    PairDone =>
        /\ (AbsentOrWithin(probe.a.fade_out, 0, 300000)
            /\ AbsentOrWithin(probe.b.fade_out, 0, 300000)) =>
              /\ Unwrap(probe.ra).valid.ok /\ Unwrap(probe.rb).valid.ok
              /\ probe.ra = probe.rb
        /\ ~AbsentOrWithin(probe.a.fade_out, 0, 300000) =>
              /\ Unwrap(probe.ra).valid = Err("fade_out must be between 0 and 30 seconds")
              /\ Unwrap(probe.ra).response.status = 400
        /\ Unwrap(probe.ra).args = Unwrap(probe.rb).args

\* C26 witness: fade_out absent and fade_out 15 s on a request with fade_in,
\* normalization and audio_filters: the same vector, which has an -af
C26_Witness ==
    /\ PairDone
    /\ probe.a.fade_out = None
    /\ probe.b.fade_out = Some(150000)
    /\ probe.a.fade_in = Some(25000)
    /\ probe.ra = probe.rb
    /\ \E i \in 1 .. Len(Unwrap(probe.ra).args) : Unwrap(probe.ra).args[i] = "-af"

---------------------------------------------------------------------------
(* Properties of transcode_handler on codec and format, under Spec *)

\* the pairs the specification lists as compatible
CompatiblePairs ==
    { <<"libopus", "opus">>, <<"libmp3lame", "mp3">>, <<"aac", "aac">>,
      <<"pcm_s16le", "pcm">>, <<"pcm_s16le", "wav">>, <<"flac", "flac">> }

\* the request of s pairs a codec with a format it is not compatible with
Incompatible(s) ==
    /\ IsSome(request[s])
    /\ ~is_compatible_with(Unwrap(request[s]).codec, Unwrap(request[s]).format)

\* C27: is_compatible_with holds for exactly the six listed pairs; a request
\* is answered 400 exactly when it breaks a rule of the request model, none of
\* which reads the codec or the format; a validated request gets a permit
\* exactly when one is left; no request ends with UNSUPPORTED_FORMAT.
C27_CompatibilityNotEnforced ==
    /\ [](/\ \A c \in AudioCodec, f \in AudioFormat :
                is_compatible_with(c, f) <=> <<c, f>> \in CompatiblePairs
          /\ \A s \in Sessions :
                /\ pc[s] \in {"validated", "admitted"} => RulesHold(Unwrap(request[s]))
                /\ pc[s] = "done" =>
                      /\ Unwrap(response[s]).status \in {200, 400, 503}
                      /\ Answered(s, 400) <=> ~RulesHold(Unwrap(request[s]))
                      /\ Answered(s, 400) =>
                            Unwrap(response[s]).code = "VALIDATION_ERROR"
                      /\ Answered(s, 503) =>
                            Unwrap(response[s]).code = "CONCURRENCY_LIMIT_EXCEEDED")
    /\ [][\A s \in Sessions :
            (pc[s] = "validated" /\ pc'[s] \notin {"validated", "aborted"}) =>
                (permit'[s] <=> transcode_semaphore > 0)
         ]_vars

\* C27 witness: a request with codec libmp3lame and format opus was answered
\* 200, a request with the compatible libopus and opus was answered 400
C27_Witness ==
    /\ \E s \in Sessions :
          /\ Incompatible(s)
          /\ Unwrap(request[s]).codec = "libmp3lame"
          /\ Unwrap(request[s]).format = "opus"
          /\ Answered(s, 200)
    /\ \E s \in Sessions :
          /\ ~Incompatible(s)
          /\ IsSome(request[s])
          /\ Answered(s, 400)

---------------------------------------------------------------------------
(* Properties of the order of the rules of validate, under SpecValidate *)

\* the rules in the order the specification gives, each with whether the
\* request breaks it and the message it reports
RuleList(req) ==
    << <<req.source_url = "", "source_url is required">>,
       <<~AbsentOrWithin(req.bitrate, 8, 512),
         "bitrate must be between 8 and 512 kbps">>,
       <<IsSome(req.sample_rate) /\ Unwrap(req.sample_rate) \notin
             {8000, 12000, 16000, 24000, 44100, 48000, 96000},
         "sample_rate must be one of: [8000, 12000, 16000, 24000, 44100, 48000, 96000]">>,
       <<req.channels \notin {None, Some(1), Some(2)},
         "channels must be 1 (mono) or 2 (stereo)">>,
       <<IsSome(req.audio_filters)
             /\ ~AbsentOrWithin(Unwrap(req.audio_filters).speed, 5000, 20000),
         "speed must be between 0.5 and 2.0">>,
       <<IsSome(req.audio_filters)
             /\ ~AbsentOrWithin(Unwrap(req.audio_filters).volume, 0, 20000),
         "volume must be between 0.0 and 2.0">>,
       <<~AbsentOrWithin(req.fade_in, 0, 300000),
         "fade_in must be between 0 and 30 seconds">>,
       <<~AbsentOrWithin(req.fade_out, 0, 300000),
         "fade_out must be between 0 and 30 seconds">>,
       <<req.target_loudness < -700000 \/ req.target_loudness > 0,
         "target_loudness must be between -70 and 0 LUFS">> >>

Broken(req) == SelectSeq(RuleList(req), LAMBDA r : r[1])

\* C28: a request that breaks rules is refused with one message, that of the
\* first rule it breaks in the order source_url, bitrate, sample_rate,
\* channels, speed, volume, fade_in, fade_out, target_loudness.
C28_FirstViolatedRule ==
    (Validated /\ Broken(probe.req) # <<>>) =>
        Unwrap(probe.ret) = Err(Head(Broken(probe.req))[2])

\* C28 witness: a request that breaks the rules of speed and of volume was
\* refused with the message of speed
C28_Witness ==
    /\ Validated
    /\ Len(Broken(probe.req)) = 2
    /\ IsSome(probe.req.audio_filters)
    /\ Unwrap(probe.req.audio_filters).speed = Some(20100)
    /\ Unwrap(probe.req.audio_filters).volume = Some(-100)
    /\ Unwrap(probe.ret) = Err("speed must be between 0.5 and 2.0")

---------------------------------------------------------------------------
(* Properties of the volume stage on accepted factors, under SpecFilters *)

\* 20 * log10(factor) to one decimal, for the factors that have a finite one
FiniteDecibels ==
    [f \in {5000, 9989, 10010, 20000} |->
        CASE f = 5000  -> "-6.0"
          [] f = 9989  -> "-0.0"
          [] f = 10010 -> "0.0"
          [] f = 20000 -> "6.0"]

\* C29, as the claim states it: for every volume factor that validation
\* accepts, the volume stage is left out or carries the finite decibel value
\* 20 * log10(factor).
C29_AsStated ==
    (/\ Compiled
     /\ IsSome(probe.a.volume)
     /\ AudioFilters_validate([eq_preset |-> probe.a.eq_preset,
                               speed     |-> None,
                               volume    |-> probe.a.volume]).ok) =>
        \/ Unwrap(probe.vol) = ""
        \/ /\ Unwrap(probe.a.volume) \in DOMAIN FiniteDecibels
           /\ Unwrap(probe.vol) =
                 "volume=" \o FiniteDecibels[Unwrap(probe.a.volume)] \o "dB"

---------------------------------------------------------------------------
(* Properties of the chain compiled by transcode_handler, under Spec *)

\* the handler of s has compiled the chain
HasCompiled(st) == \E i \in 1 .. Len(st) : st[i] = "build_audio_filter_chain"

\* the tempo stages a chain may carry for a speed: none, or the single one
OneTempoStage(speed) ==
    {""} \cup (IF IsSome(speed) THEN {"atempo=" \o Fmt4(Unwrap(speed))} ELSE {})

\* C30: the handler compiles the chain only after validate returned Ok and a
\* permit was taken, in that order, and while it holds the permit; the speed
\* of a request whose chain was compiled is absent or within 0.5 to 2.0, and
\* the chain returned for it has no tempo stage or the single stage
\* atempo=<speed>, between the EQ stage and the volume stage.
C30_ChainAfterValidationAndPermit ==
    /\ [](\A s \in Sessions :
            HasCompiled(steps[s]) =>
                LET req == Unwrap(request[s])
                    af  == IF IsSome(req.audio_filters)
                           THEN Unwrap(req.audio_filters)
                           ELSE [eq_preset |-> None, speed |-> None, volume |-> None]
                    E   == build_audio_filter_chain(af.eq_preset, None, None)
                    V   == build_audio_filter_chain(None, None, af.volume)
                IN  /\ SubSeq(steps[s], 1, 4) =
                          <<"receive", "validate", "try_acquire",
                            "build_audio_filter_chain">>
                    /\ RulesHold(req)
                    /\ AbsentOrWithin(af.speed, 5000, 20000)
                    /\ Answered(s, 200)
                    /\ \E T \in OneTempoStage(af.speed) :
                          Unwrap(response[s]).x_audio_filters \in
                              {None, Some(Then(Then(E, T), V))})
    /\ [][\A s \in Sessions :
            (~HasCompiled(steps[s]) /\ HasCompiled(steps'[s])) =>
                /\ pc[s] = "admitted"
                /\ permit[s]
                /\ validate(Unwrap(request[s])).ok
         ]_vars

\* C30 witness: the request with speed 1.5 was answered with one tempo stage
\* in its chain, the request with speed 0.25 was refused and nothing was
\* compiled for it
C30_Witness ==
    /\ \E s \in Sessions :
          /\ HasCompiled(steps[s])
          /\ IsSome(Unwrap(request[s]).audio_filters)
          /\ Unwrap(Unwrap(request[s]).audio_filters).speed = Some(15000)
          /\ Unwrap(response[s]).x_audio_filters =
                Some("equalizer=f=100:width_type=o:width=1.00:g=6.0,atempo=1.5000")
    /\ \E s \in Sessions :
          /\ Answered(s, 400)
          /\ IsSome(Unwrap(request[s]).audio_filters)
          /\ Unwrap(Unwrap(request[s]).audio_filters).speed = Some(2500)
          /\ ~HasCompiled(steps[s])

====
